---- MODULE Spec2Model ----
(***************************************************************************)
(* The epidemic projection of the dashboard: simulateOneDay,               *)
(* adjustPopulations and the driver getAllBracketCurves.                   *)
(*                                                                         *)
(* The program computes with JavaScript numbers.  The model computes the   *)
(* same expressions exactly, over the rationals: it reads every decimal    *)
(* literal of the source as the fraction it denotes (0.821 = 821/1000) and *)
(* never rounds.  A small rational (a model constant, an input, a total    *)
(* population) is a record [n, d] in lowest terms.  The cells of the state *)
(* matrix and of the projection grid grow too long for machine integers;   *)
(* a cell is an arbitrary-precision integer numerator over a scale (a      *)
(* positive arbitrary-precision denominator) that all cells of one row of  *)
(* the state matrix, and of one day of the grid, share.                    *)
(***************************************************************************)
EXTENDS Integers, Sequences, FiniteSets, TLC

----------------------------------------------------------------------------
(* Machine-integer helpers *)

Max(a, b) == IF a >= b THEN a ELSE b
Min(a, b) == IF a <= b THEN a ELSE b
Abs(i) == IF i < 0 THEN -i ELSE i
Sgn(i) == IF i < 0 THEN -1 ELSE IF i = 0 THEN 0 ELSE 1

RECURSIVE GCD(_, _)
GCD(a, b) == IF b = 0 THEN a ELSE GCD(b, a % b)

LCM(a, b) == (a \div GCD(a, b)) * b

RECURSIVE LCMSeq(_)
LCMSeq(s) == IF Len(s) = 0 THEN 1 ELSE LCM(Head(s), LCMSeq(Tail(s)))

----------------------------------------------------------------------------
(* Small rationals: [n |-> numerator, d |-> denominator > 0], lowest terms *)

Rat(n, d) ==
  LET g == GCD(Abs(n), Abs(d)) IN [n |-> Sgn(d) * (n \div g), d |-> Abs(d) \div g]

RInt(i) == [n |-> i, d |-> 1]
RAdd(x, y) == Rat(x.n * y.d + y.n * x.d, x.d * y.d)
RSub(x, y) == Rat(x.n * y.d - y.n * x.d, x.d * y.d)
RMul(x, y) == Rat(x.n * y.n, x.d * y.d)
RDiv(x, y) == Rat(x.n * y.d, x.d * y.n)

RECURSIVE RSum(_)
RSum(s) == IF Len(s) = 0 THEN RInt(0) ELSE RAdd(Head(s), RSum(Tail(s)))

----------------------------------------------------------------------------
(* Arbitrary-precision integers: [sgn |-> -1, 0 or 1, mag |-> the limbs,   *)
(* least significant first, the last one non-zero].  The recursions split  *)
(* their range in halves, so their depth is logarithmic in the length.     *)

Base == 10 * 10 * 10

Limb(m, k) == IF k <= Len(m) THEN m[k] ELSE 0

RECURSIVE MagOfNat(_)
MagOfNat(n) == IF n = 0 THEN <<>> ELSE <<n % Base>> \o MagOfNat(n \div Base)

RECURSIVE Scan(_, _, _, _)
Scan(cols, lo, hi, cin) ==
  IF lo = hi
    THEN LET v == cols[lo] + cin IN
         [digits |-> <<v % Base>>, cout |-> v \div Base,
          top |-> IF v % Base = 0 THEN 0 ELSE lo]
    ELSE LET mid == (lo + hi) \div 2
             l == Scan(cols, lo, mid, cin)
             r == Scan(cols, mid + 1, hi, l.cout)
         IN [digits |-> l.digits \o r.digits, cout |-> r.cout,
             top |-> IF r.top # 0 THEN r.top ELSE l.top]

CarryResult(s) ==
  IF s.cout # 0 THEN s.digits \o MagOfNat(s.cout) ELSE SubSeq(s.digits, 1, s.top)

Carry(cols) ==
  IF Len(cols) = 0 THEN <<>> ELSE CarryResult(Scan(cols, 1, Len(cols), 0))

RECURSIVE MagCmpRange(_, _, _, _)
MagCmpRange(a, b, lo, hi) ==
  IF lo = hi THEN Sgn(a[lo] - b[lo])
  ELSE LET mid == (lo + hi) \div 2
           h == MagCmpRange(a, b, mid + 1, hi)
       IN IF h # 0 THEN h ELSE MagCmpRange(a, b, lo, mid)

MagCmp(a, b) ==
  IF a = b THEN 0
  ELSE IF Len(a) # Len(b) THEN Sgn(Len(a) - Len(b))
  ELSE MagCmpRange(a, b, 1, Len(a))

RECURSIVE ColSum(_, _, _, _, _)
ColSum(a, b, k, lo, hi) ==
  IF lo = hi THEN a[lo] * b[k + 1 - lo]
  ELSE LET mid == (lo + hi) \div 2 IN
       ColSum(a, b, k, lo, mid) + ColSum(a, b, k, mid + 1, hi)

MagMul(a, b) ==
  IF Len(a) = 0 \/ Len(b) = 0 THEN <<>>
  ELSE IF a = <<1>> THEN b
  ELSE IF b = <<1>> THEN a
  ELSE Carry([k \in 1..(Len(a) + Len(b) - 1) |->
                ColSum(a, b, k, Max(1, k + 1 - Len(b)), Min(Len(a), k))])

Big(s, m) == [sgn |-> IF Len(m) = 0 THEN 0 ELSE s, mag |-> m]
BInt(i) == Big(Sgn(i), MagOfNat(Abs(i)))
BZero == BInt(0)
BOne == BInt(1)
BNeg(a) == Big(-a.sgn, a.mag)
BAbs(a) == Big(1, a.mag)

(* the sign of a + b, and a + b given its sign *)
SumSign(a, b) ==
  IF a.sgn = 0 THEN b.sgn
  ELSE IF b.sgn = 0 \/ a.sgn = b.sgn THEN a.sgn
  ELSE a.sgn * MagCmp(a.mag, b.mag)

SignedSum(a, b, s) ==
  Big(s, Carry([k \in 1..Max(Len(a.mag), Len(b.mag)) |->
                  s * (a.sgn * Limb(a.mag, k) + b.sgn * Limb(b.mag, k))]))

BAdd(a, b) == SignedSum(a, b, SumSign(a, b))
BSub(a, b) == BAdd(a, BNeg(b))
BMul(a, b) == Big(a.sgn * b.sgn, MagMul(a.mag, b.mag))
BMul3(a, b, c) == BMul(BMul(a, b), c)
BLeq(a, b) == SumSign(b, BNeg(a)) >= 0
BMax(a, b) == IF BLeq(b, a) THEN a ELSE b

RECURSIVE BSumRange(_, _, _)
BSumRange(f, lo, hi) ==
  IF lo > hi THEN BZero
  ELSE IF lo = hi THEN f[lo]
  ELSE LET mid == (lo + hi) \div 2 IN
       BAdd(BSumRange(f, lo, mid), BSumRange(f, mid + 1, hi))

(* Quotients of numerators by scales: n1/d1 compared with n2/d2 *)
QEq(n1, d1, n2, d2) == BMul(n1, d2) = BMul(n2, d1)
QLeq(n1, d1, n2, d2) == BLeq(BMul(n1, d2), BMul(n2, d1))

----------------------------------------------------------------------------
(* enum seirIndex and enum ageGroupIndex *)

susceptible == 0
exposed == 1
infectious == 2
quarantined == 3
hospitalized == 4
icu == 5
hospitalRecovery == 6
fatalities == 7
recoveredMild == 8
recoveredHospitalized == 9
seirLength == 10

seirIndexList == 0..(seirLength - 1)

ageUnknown == 0
age0 == 1
age20 == 2
age45 == 3
age55 == 4
age65 == 5
age75 == 6
age85 == 7
staff == 8
ageGroupLength == 9

AgeGroups == 0..(ageGroupLength - 1)

----------------------------------------------------------------------------
(* model constants *)

dIncubation == RInt(2)
rExposedToInfectious == RDiv(RInt(1), dIncubation)

pSymptomatic == Rat(821, 1000)
dInfectious == Rat(51, 10)
rInfectiousToQuarantined == RMul(pSymptomatic, RDiv(RInt(1), dInfectious))

dAsymptomaticInfectious == RInt(7)
rInfectiousToRecovered ==
  RMul(RSub(RInt(1), pSymptomatic), RDiv(RInt(1), dAsymptomaticInfectious))

pQuarantinedMild == Rat(74, 100)
dMildRecovery == Rat(99, 10)
rQuarantinedToRecovered == RMul(pQuarantinedMild, RDiv(RInt(1), dMildRecovery))

dHospitalLag == Rat(29, 10)
rQuarantinedToHospitalized ==
  RMul(RSub(RInt(1), pQuarantinedMild), RDiv(RInt(1), dHospitalLag))

pIcu == Rat(3, 10)
dIcuLag == RInt(2)
rHospitalizedToIcu == RMul(pIcu, RDiv(RInt(1), dIcuLag))

dHospitalized == RInt(22)

dPostIcuRecovery == RInt(12)
rHospitalRecoveryToRecovered == RDiv(RInt(1), dPostIcuRecovery)

pIcuFatality == Rat(15, 100)
dIcuFatality == Rat(63, 10)
dIcuRecovery == RInt(5)
rIcuToFatality == RMul(pIcuFatality, RDiv(RInt(1), dIcuFatality))
rIcuToHospitalRecovery ==
  RMul(RSub(RInt(1), pIcuFatality), RDiv(RInt(1), dIcuRecovery))

dHospitalizedFatality == Rat(83, 10)

populationAdjustmentRatio == Rat(879, 10000)

pInitiallyInfectious == Rat(57, 100)
pInitiallyQuarantined == Rat(253, 1000)
pInitiallyHospitalized == Rat(41, 1000)
pInitiallyIcu == Rat(12, 1000)
pInitiallyHospitalRecovery == Rat(4, 1000)
pInitiallyRecoveredMild == Rat(74, 1000)
pInitiallyRecoveredHospitalized == Rat(45, 1000)
pInitiallyDead == Rat(1, 1000)

(* the rates simulateOneDay derives from the group's fatality rate *)
rHospitalizedToFatality(pFatalityRate) ==
  RMul(pFatalityRate, RDiv(RInt(1), dHospitalizedFatality))
pHospitalRecovery(pFatalityRate) == RSub(RSub(RInt(1), pFatalityRate), pIcu)
rHospitalizedToRecovered(pFatalityRate) ==
  RMul(pHospitalRecovery(pFatalityRate), RDiv(RInt(1), dHospitalized))

ageGroupFatalityRates ==
  [g \in AgeGroups |->
     CASE g = ageUnknown -> Rat(26, 1000)
       [] g = age0 -> RInt(0)
       [] g = age20 -> Rat(15, 10000)
       [] g = age45 -> Rat(65, 10000)
       [] g = age55 -> Rat(2, 100)
       [] g = age65 -> Rat(38, 1000)
       [] g = age75 -> Rat(74, 1000)
       [] g = age85 -> Rat(1885, 10000)
       [] g = staff -> Rat(26, 1000)]

R0Cells(rateOfSpreadFactor) ==
  CASE rateOfSpreadFactor = "low" -> Rat(24, 10)
    [] rateOfSpreadFactor = "moderate" -> RInt(3)
    [] rateOfSpreadFactor = "high" -> Rat(37, 10)

R0Dorms(rateOfSpreadFactor) ==
  CASE rateOfSpreadFactor = "low" -> RInt(3)
    [] rateOfSpreadFactor = "moderate" -> RInt(5)
    [] rateOfSpreadFactor = "high" -> RInt(7)

rateOfSpreadCellsAdjustment == Rat(8, 10)
rateOfSpreadDormsAdjustment == Rat(17, 10)

(* R0 adjusted for housing type and capacity *)
rateOfSpreadCells(in) ==
  RSub(R0Cells(in.rateOfSpreadFactor),
       RMul(RSub(RInt(1), in.facilityOccupancyPct),
            RSub(R0Cells(in.rateOfSpreadFactor), rateOfSpreadCellsAdjustment)))

rateOfSpreadDorms(in) ==
  RSub(R0Dorms(in.rateOfSpreadFactor),
       RMul(RSub(RInt(1), in.facilityOccupancyPct),
            RSub(R0Dorms(in.rateOfSpreadFactor), rateOfSpreadDormsAdjustment)))

(* The rates of the linear transitions as numerators over one scale.       *)
(* RateDen is a common denominator of the rates that are the same for      *)
(* every group, HospitalRateDen one of the rates that depend on the        *)
(* group's fatality rate; LinearScale is their product.                    *)
RateDen ==
  LCMSeq(<<rExposedToInfectious.d, rInfectiousToQuarantined.d,
           rInfectiousToRecovered.d, rQuarantinedToRecovered.d,
           rQuarantinedToHospitalized.d, rHospitalizedToIcu.d,
           rHospitalRecoveryToRecovered.d, rIcuToFatality.d,
           rIcuToHospitalRecovery.d>>)

HospitalRateDen ==
  LCMSeq([i \in 1..ageGroupLength |->
            LCM(rHospitalizedToFatality(ageGroupFatalityRates[i - 1]).d,
                rHospitalizedToRecovered(ageGroupFatalityRates[i - 1]).d)])

LinearScale == BMul(BInt(RateDen), BInt(HospitalRateDen))

Scaled(r) ==
  IF RateDen % r.d = 0
    THEN BMul3(BInt(r.n), BInt(RateDen \div r.d), BInt(HospitalRateDen))
    ELSE BMul3(BInt(r.n), BInt(HospitalRateDen \div r.d), BInt(RateDen))

----------------------------------------------------------------------------
(* function simulateOneDay                                                 *)
(*                                                                         *)
(* inputs.priorSimulation, inputs.totalInfectious and                      *)
(* inputs.totalSusceptibleIncarcerated are numerators over inputs.scale.   *)
(* The result is the new row as numerators over the result's scale, which  *)
(* depends only on inputs that are the same for every group of one day:    *)
(*   scale * (scale * AdjustmentFactor) * |totalPopulation's numerator|    *)
(*         * ExposureDen * LinearScale                                     *)
(* so that the quotient by totalSusceptibleIncarcerated (the adjusted      *)
(* susceptible, over scale * AdjustmentFactor), the quotient by            *)
(* totalPopulation, the two exposure coefficients and the linear rates     *)
(* all have integer numerators over it.                                    *)

AdjustmentFactor(inputs) ==
  IF inputs.populationAdjustment # 0 /\ inputs.totalSusceptibleIncarcerated.sgn # 0
    THEN BAbs(inputs.totalSusceptibleIncarcerated)
    ELSE BOne

ExposureDen(inputs) ==
  LCMSeq(<<RDiv(inputs.rateOfSpreadCells, dInfectious).d,
           RMul(RSub(RInt(1), inputs.facilityDormitoryPct),
                RDiv(inputs.rateOfSpreadCells, dInfectious)).d,
           RMul(inputs.facilityDormitoryPct,
                RDiv(inputs.rateOfSpreadDorms, dInfectious)).d>>)

PopulationFactor(inputs) ==
  IF inputs.totalPopulation.n = 0 THEN 1 ELSE Abs(inputs.totalPopulation.n)

(* scale of the result over inputs.scale, without the linear rates *)
StepFactor(inputs) ==
  BMul3(BMul(inputs.scale, AdjustmentFactor(inputs)),
        BInt(PopulationFactor(inputs)), BInt(ExposureDen(inputs)))

(* AdjustedSusceptible with the staff's susceptible adjusted like the others' *)
AdjustedSusceptibleForAll(inputs) ==
  BAdd(BMul(inputs.priorSimulation[susceptible], AdjustmentFactor(inputs)),
       IF inputs.totalSusceptibleIncarcerated.sgn # 0
         THEN BMul3(BInt(inputs.populationAdjustment
                           * inputs.totalSusceptibleIncarcerated.sgn),
                    inputs.priorSimulation[susceptible], inputs.scale)
         ELSE BZero)

(* the local `susceptible` after lines 181-183, over scale * AdjustmentFactor *)
AdjustedSusceptible(inputs) ==
  BAdd(BMul(inputs.priorSimulation[susceptible], AdjustmentFactor(inputs)),
       IF ~inputs.simulateStaff /\ inputs.totalSusceptibleIncarcerated.sgn # 0
         THEN BMul3(BInt(inputs.populationAdjustment
                           * inputs.totalSusceptibleIncarcerated.sgn),
                    inputs.priorSimulation[susceptible], inputs.scale)
         ELSE BZero)

(* (coefficient * totalInfectious * susceptible) / totalPopulation over    *)
(* NewScale, for a non-zero totalPopulation                                *)
ExposureTerm(inputs, coefficient, adjusted) ==
  BMul3(BMul3(BInt(coefficient.n * (ExposureDen(inputs) \div coefficient.d)),
              inputs.totalInfectious, adjusted),
        BInt(inputs.totalPopulation.d * Sgn(inputs.totalPopulation.n)),
        LinearScale)

(* the coefficient of totalInfectious * susceptible / totalPopulation in   *)
(* the staff's cSusceptible, and the two of the others'                    *)
StaffCoefficient(inputs) == RDiv(inputs.rateOfSpreadCells, dInfectious)
CellsCoefficient(inputs) ==
  RMul(RSub(RInt(1), inputs.facilityDormitoryPct),
       RDiv(inputs.rateOfSpreadCells, dInfectious))
DormsCoefficient(inputs) ==
  RMul(inputs.facilityDormitoryPct, RDiv(inputs.rateOfSpreadDorms, dInfectious))

(* NewExposures with the housing split applied to the staff as well *)
NewExposuresSplitForAll(inputs, adjusted) ==
  IF inputs.totalPopulation.n = 0 THEN BZero
  ELSE BAdd(ExposureTerm(inputs, CellsCoefficient(inputs), adjusted),
            ExposureTerm(inputs, DormsCoefficient(inputs), adjusted))

(* cSusceptible over NewScale, after the Number.isFinite guard: with exact *)
(* arithmetic the value is not finite exactly when totalPopulation is 0    *)
NewExposures(inputs, adjusted) ==
  IF inputs.totalPopulation.n = 0 THEN BZero
  ELSE IF inputs.simulateStaff
    THEN ExposureTerm(inputs, StaffCoefficient(inputs), adjusted)
    ELSE BAdd(ExposureTerm(inputs, CellsCoefficient(inputs), adjusted),
              ExposureTerm(inputs, DormsCoefficient(inputs), adjusted))

(* rate * value over scale * LinearScale *)
Flow(r, v) == BMul(Scaled(r), v)

(* value + delta over NewScale, the delta over scale * LinearScale and     *)
(* factor = StepFactor                                                     *)
Plus(v, delta, factor) == BMul(BAdd(BMul(v, LinearScale), delta), factor)

(* lines 200-249, with cSusceptible over NewScale, factor = StepFactor and *)
(* adjusted = AdjustedSusceptible                                          *)
NewDay(inputs, prior, adjusted, cSusceptible, factor, rHospToFatality, rHospToRecovered) ==
  LET susceptibleDelta == BNeg(cSusceptible)
      exposedLinear == BNeg(Flow(rExposedToInfectious, prior[exposed]))
      infectiousDelta ==
        BSub(Flow(rExposedToInfectious, prior[exposed]),
             BAdd(Flow(rInfectiousToQuarantined, prior[infectious]),
                  Flow(rInfectiousToRecovered, prior[infectious])))
      quarantinedDelta ==
        BSub(Flow(rInfectiousToQuarantined, prior[infectious]),
             BAdd(Flow(rQuarantinedToHospitalized, prior[quarantined]),
                  Flow(rQuarantinedToRecovered, prior[quarantined])))
      hospitalizedDelta ==
        BSub(BSub(Flow(rQuarantinedToHospitalized, prior[quarantined]),
                  BAdd(Flow(rHospitalizedToIcu, prior[hospitalized]),
                       Flow(rHospToRecovered, prior[hospitalized]))),
             Flow(rHospToFatality, prior[hospitalized]))
      icuDelta ==
        BSub(BSub(Flow(rHospitalizedToIcu, prior[hospitalized]),
                  Flow(rIcuToFatality, prior[icu])),
             Flow(rIcuToHospitalRecovery, prior[icu]))
      hospitalRecoveryDelta ==
        BSub(Flow(rIcuToHospitalRecovery, prior[icu]),
             Flow(rHospitalRecoveryToRecovered, prior[hospitalRecovery]))
      fatalitiesDelta ==
        BAdd(Flow(rIcuToFatality, prior[icu]),
             Flow(rHospToFatality, prior[hospitalized]))
      recoveredMildDelta ==
        BAdd(Flow(rInfectiousToRecovered, prior[infectious]),
             Flow(rQuarantinedToRecovered, prior[quarantined]))
      recoveredHospitalizedDelta ==
        BAdd(Flow(rHospToRecovered, prior[hospitalized]),
             Flow(rHospitalRecoveryToRecovered, prior[hospitalRecovery]))
  IN [c \in seirIndexList |->
        CASE c = susceptible ->
               BMax(BAdd(BMul3(adjusted,
                               BMul3(inputs.scale, BInt(PopulationFactor(inputs)),
                                     BInt(ExposureDen(inputs))),
                               LinearScale),
                         susceptibleDelta),
                    BZero)
          [] c = exposed ->
               BAdd(Plus(prior[exposed], exposedLinear, factor), cSusceptible)
          [] c = infectious -> Plus(prior[infectious], infectiousDelta, factor)
          [] c = quarantined -> Plus(prior[quarantined], quarantinedDelta, factor)
          [] c = hospitalized -> Plus(prior[hospitalized], hospitalizedDelta, factor)
          [] c = icu -> Plus(prior[icu], icuDelta, factor)
          [] c = hospitalRecovery ->
               Plus(prior[hospitalRecovery], hospitalRecoveryDelta, factor)
          [] c = fatalities -> Plus(prior[fatalities], fatalitiesDelta, factor)
          [] c = recoveredMild -> Plus(prior[recoveredMild], recoveredMildDelta, factor)
          [] c = recoveredHospitalized ->
               Plus(prior[recoveredHospitalized], recoveredHospitalizedDelta, factor)]

Projection(inputs, adjusted, factor) ==
  [newDay |-> NewDay(inputs, inputs.priorSimulation, adjusted,
                     NewExposures(inputs, adjusted), factor,
                     rHospitalizedToFatality(inputs.pFatalityRate),
                     rHospitalizedToRecovered(inputs.pFatalityRate)),
   scale |-> BMul3(inputs.scale, factor, LinearScale),
   susceptible |-> [n |-> adjusted, d |-> BMul(inputs.scale, AdjustmentFactor(inputs))]]

simulateOneDay(inputs) ==
  Projection(inputs, AdjustedSusceptible(inputs), StepFactor(inputs))

----------------------------------------------------------------------------
(* adjustPopulations: the populations as small rationals, by group *)

(* adjustPopulations with the staff adjusted like the others *)
adjustPopulationsWithStaff(ageGroupPopulations, populationTurnover) ==
  LET adjustRate == RMul(populationTurnover, populationAdjustmentRatio) IN
  [i \in AgeGroups |->
     LET pop == RInt(ageGroupPopulations[i + 1]) IN RAdd(pop, RMul(pop, adjustRate))]

adjustPopulations(ageGroupPopulations, populationTurnover) ==
  LET adjustRate == RMul(populationTurnover, populationAdjustmentRatio) IN
  [i \in AgeGroups |->
     LET pop == RInt(ageGroupPopulations[i + 1]) IN
     IF i = staff THEN pop ELSE RAdd(pop, RMul(pop, adjustRate))]

----------------------------------------------------------------------------
(* function getAllBracketCurves                                            *)
(*                                                                         *)
(* A run is a record of the function's locals:                             *)
(*   inputs                       the CurveProjectionInputs                *)
(*   pc, day, ageGroup            the position in the function             *)
(*   singleDayState, rowScale     the state matrix [group][compartment],   *)
(*                                numerators over the row's scale          *)
(*   projectionGrid, dayScale     the grid [compartment][day][group],      *)
(*                                numerators over the day's scale          *)
(*   totalPopulationByDay         small rationals, Undefined where the     *)
(*                                array has a hole                         *)
(*   expectedPopulationChanges    the array's entries and the negative     *)
(*                                keys written to it as properties         *)
(*   totalInfectious, totalSusceptibleIncarcerated, totalPopulation        *)
(*                                the day's aggregates, the first two      *)
(*                                over aggregateScale                      *)
(*   adjustedSusceptible          by group, simulateOneDay's local         *)
(*                                `susceptible` of the current day         *)
(* A date of a planned release is given by its differenceInCalendarDays    *)
(* from today.                                                             *)

Undefined == [n |-> 0, d |-> 0]
IsDefined(x) == x.d # 0

Days(in) == 0..(in.numDays - 1)

ZeroMatrix == [g \in AgeGroups |-> [c \in seirIndexList |-> BZero]]
NoAdjusted == [g \in AgeGroups |-> [n |-> BZero, d |-> BOne]]

NewRun(in) ==
  [inputs |-> in,
   pc |-> "initializing",
   day |-> 0,
   ageGroup |-> 0,
   singleDayState |-> ZeroMatrix,
   rowScale |-> [g \in AgeGroups |-> BOne],
   projectionGrid |->
     [c \in seirIndexList |-> [d \in Days(in) |-> [g \in AgeGroups |-> BZero]]],
   dayScale |-> [d \in Days(in) |-> BOne],
   totalPopulationByDay |-> [d \in Days(in) |-> Undefined],
   expectedPopulationChanges |-> [entries |-> [d \in Days(in) |-> 0], properties |-> {}],
   totalInfectious |-> BZero,
   totalSusceptibleIncarcerated |-> BZero,
   totalPopulation |-> Undefined,
   aggregateScale |-> BOne,
   adjustedSusceptible |-> NoAdjusted]

(* updateProjectionDay writing the slice of the day before *)
updateProjectionDayOffByOne(grid, day, data) ==
  [compartment \in seirIndexList |->
     [grid[compartment] EXCEPT
        ![Max(day - 1, 0)] = [bracket \in AgeGroups |-> data[bracket][compartment]]]]

(* lines 296-307 *)
updateProjectionDay(grid, day, data) ==
  [compartment \in seirIndexList |->
     [grid[compartment] EXCEPT ![day] = [bracket \in AgeGroups |-> data[bracket][compartment]]]]

(* lines 350-390: one group's initial row, as small rationals *)
InitialRow(pop, cases) ==
  LET exposedCases == RMul(cases, rExposedToInfectious) IN
  [c \in seirIndexList |->
     CASE c = exposed -> exposedCases
       [] c = susceptible -> RSub(RSub(pop, cases), exposedCases)
       [] c = infectious -> RMul(cases, pInitiallyInfectious)
       [] c = quarantined -> RMul(cases, pInitiallyQuarantined)
       [] c = hospitalized -> RMul(cases, pInitiallyHospitalized)
       [] c = icu -> RMul(cases, pInitiallyIcu)
       [] c = hospitalRecovery -> RMul(cases, pInitiallyHospitalRecovery)
       [] c = recoveredMild -> RMul(cases, pInitiallyRecoveredMild)
       [] c = recoveredHospitalized -> RMul(cases, pInitiallyRecoveredHospitalized)
       [] c = fatalities -> RMul(cases, pInitiallyDead)]

InitialRows(in) ==
  LET pops == adjustPopulations(in.ageGroupPopulations, in.populationTurnover) IN
  [g \in AgeGroups |-> InitialRow(pops[g], RInt(in.ageGroupInitiallyInfected[g + 1]))]

(* a common denominator of the initial matrix *)
InitialScale(in) ==
  LET rows == InitialRows(in) IN
  LCMSeq([i \in 1..ageGroupLength |->
            LCMSeq([j \in 1..seirLength |-> rows[i - 1][j - 1].d])])

InitialState(in) ==
  LET rows == InitialRows(in)
      scale == InitialScale(in)
  IN [g \in AgeGroups |->
        [c \in seirIndexList |-> BInt(rows[g][c].n * (scale \div rows[g][c].d))]]

(* ApplyRelease with the count written over the entry instead of           *)
(* subtracted from it                                                      *)
ApplyReleaseOverwriting(changes, release) ==
  IF ~release.hasCount \/ release.count = 0 \/ ~release.hasDate
    THEN changes
  ELSE IF release.dateIndex < Cardinality(DOMAIN changes.entries)
    THEN IF release.dateIndex >= 0
           THEN [changes EXCEPT !.entries[release.dateIndex] = -release.count]
           ELSE [changes EXCEPT !.properties = @ \cup {release.dateIndex}]
  ELSE changes

(* lines 395-404: the callback of plannedReleases?.forEach.  A write to a  *)
(* negative key of an array sets a property and leaves the entries and the *)
(* length alone.                                                           *)
ApplyRelease(changes, release) ==
  IF ~release.hasCount \/ release.count = 0 \/ ~release.hasDate
    THEN changes
  ELSE IF release.dateIndex < Cardinality(DOMAIN changes.entries)
    THEN IF release.dateIndex >= 0
           THEN [changes EXCEPT !.entries[release.dateIndex] = @ - release.count]
           ELSE [changes EXCEPT !.properties = @ \cup {release.dateIndex}]
  ELSE changes

RECURSIVE ApplyReleases(_, _, _)
ApplyReleases(changes, releases, i) ==
  IF i > Len(releases) THEN changes
  ELSE ApplyReleases(ApplyRelease(changes, releases[i]), releases, i + 1)

(* lines 392-404 *)
ResolveReleases(in) ==
  LET changes == [entries |-> [d \in Days(in) |-> 0], properties |-> {}] IN
  IF in.plannedReleases.defined
    THEN ApplyReleases(changes, in.plannedReleases.list, 1)
    ELSE changes

(* lines 320-409: up to the first test of the loop *)
DoInitialize(r) ==
  LET in == r.inputs
      ageGroupPopulations == adjustPopulations(in.ageGroupPopulations, in.populationTurnover)
      state == InitialState(in)
      scale == BInt(InitialScale(in))
  IN [r EXCEPT
        !.pc = "loop",
        !.day = 1,
        !.totalPopulationByDay[0] =
           RSum([i \in 1..ageGroupLength |-> ageGroupPopulations[i - 1]]),
        !.singleDayState = state,
        !.rowScale = [g \in AgeGroups |-> scale],
        !.expectedPopulationChanges = ResolveReleases(in),
        !.projectionGrid = updateProjectionDay(r.projectionGrid, 0, state),
        !.dayScale[0] = scale]

(* DoBeginDay with the staff left out of the total infectious as well *)
DoBeginDayWithoutStaff(r) ==
  [r EXCEPT
     !.pc = "groups",
     !.ageGroup = 0,
     !.totalInfectious =
        BSumRange([g \in AgeGroups |->
                     IF g # staff THEN r.singleDayState[g][infectious] ELSE BZero],
                  0, ageGroupLength - 1),
     !.totalSusceptibleIncarcerated =
        BSumRange([g \in AgeGroups |->
                     IF g # staff THEN r.singleDayState[g][susceptible] ELSE BZero],
                  0, ageGroupLength - 1),
     !.aggregateScale = r.rowScale[0],
     !.totalPopulation = r.totalPopulationByDay[r.day - 1],
     !.adjustedSusceptible = NoAdjusted]

(* lines 410-423: the loop test holds; the day's aggregates *)
DoBeginDay(r) ==
  [r EXCEPT
     !.pc = "groups",
     !.ageGroup = 0,
     !.totalInfectious =
        BSumRange([g \in AgeGroups |-> r.singleDayState[g][infectious]],
                  0, ageGroupLength - 1),
     !.totalSusceptibleIncarcerated =
        BSumRange([g \in AgeGroups |->
                     IF g # staff THEN r.singleDayState[g][susceptible] ELSE BZero],
                  0, ageGroupLength - 1),
     !.aggregateScale = r.rowScale[0],
     !.totalPopulation = r.totalPopulationByDay[r.day - 1],
     !.adjustedSusceptible = NoAdjusted]

(* lines 426-437: the argument of simulateOneDay for one group *)
SingleDayInputs(r, ageGroup) ==
  [priorSimulation |-> r.singleDayState[ageGroup],
   scale |-> r.rowScale[ageGroup],
   totalPopulation |-> r.totalPopulation,
   totalInfectious |-> r.totalInfectious,
   rateOfSpreadCells |-> rateOfSpreadCells(r.inputs),
   rateOfSpreadDorms |-> rateOfSpreadDorms(r.inputs),
   pFatalityRate |-> ageGroupFatalityRates[ageGroup],
   facilityDormitoryPct |-> r.inputs.facilityDormitoryPct,
   simulateStaff |-> (ageGroup = staff),
   populationAdjustment |-> r.expectedPopulationChanges.entries[r.day],
   totalSusceptibleIncarcerated |-> r.totalSusceptibleIncarcerated]

(* lines 425-439: one call of the forEach callback *)
setRowValues(r, projectionForAgeGroup) ==
  [r EXCEPT
     !.singleDayState[r.ageGroup] = projectionForAgeGroup.newDay,
     !.rowScale[r.ageGroup] = projectionForAgeGroup.scale,
     !.adjustedSusceptible[r.ageGroup] = projectionForAgeGroup.susceptible,
     !.ageGroup = r.ageGroup + 1]

DoSimulateGroup(r) == setRowValues(r, simulateOneDay(SingleDayInputs(r, r.ageGroup)))

(* DoEndDay with the adjustment of the day before added to the total *)
DoEndDayOffByOne(r) ==
  [r EXCEPT
     !.pc = "loop",
     !.projectionGrid = updateProjectionDay(r.projectionGrid, r.day, r.singleDayState),
     !.dayScale[r.day] = r.rowScale[0],
     !.totalPopulationByDay[r.day] =
        RAdd(r.totalPopulation, RInt(r.expectedPopulationChanges.entries[r.day - 1])),
     !.day = r.day + 1]

(* lines 441-448 *)
DoEndDay(r) ==
  [r EXCEPT
     !.pc = "loop",
     !.projectionGrid = updateProjectionDay(r.projectionGrid, r.day, r.singleDayState),
     !.dayScale[r.day] = r.rowScale[0],
     !.totalPopulationByDay[r.day] =
        RAdd(r.totalPopulation, RInt(r.expectedPopulationChanges.entries[r.day])),
     !.day = r.day + 1]

(* line 451: the loop test fails *)
DoReturn(r) == [r EXCEPT !.pc = "complete"]

----------------------------------------------------------------------------
(* The inputs of the runs that are checked *)

MaxDays == 4
LongDays == 6

Release(dateIndex, count) ==
  [hasDate |-> TRUE, dateIndex |-> dateIndex, hasCount |-> TRUE, count |-> count]
Undated(count) ==
  [hasDate |-> FALSE, dateIndex |-> 0, hasCount |-> TRUE, count |-> count]
Uncounted(dateIndex) ==
  [hasDate |-> TRUE, dateIndex |-> dateIndex, hasCount |-> FALSE, count |-> 0]

NoPlan == [defined |-> FALSE, list |-> <<>>]
Plan(list) == [defined |-> TRUE, list |-> list]

(* populations and initially infected by group:                            *)
(* an outbreak, no infection, an empty facility, more cases than people    *)
Outbreak ==
  [ageGroupPopulations |-> <<0, 0, 20, 0, 0, 0, 0, 10, 5>>,
   ageGroupInitiallyInfected |-> <<0, 0, 3, 0, 0, 0, 0, 1, 1>>]
Healthy ==
  [ageGroupPopulations |-> <<0, 0, 20, 0, 0, 0, 0, 10, 5>>,
   ageGroupInitiallyInfected |-> <<0, 0, 0, 0, 0, 0, 0, 0, 0>>]
Empty ==
  [ageGroupPopulations |-> <<0, 0, 0, 0, 0, 0, 0, 0, 0>>,
   ageGroupInitiallyInfected |-> <<0, 0, 0, 0, 0, 0, 0, 0, 0>>]
Overrun ==
  [ageGroupPopulations |-> <<0, 0, 20, 0, 0, 0, 0, 10, 5>>,
   ageGroupInitiallyInfected |-> <<0, 0, 20, 0, 0, 0, 0, 2, 0>>]

Scenarios == {Outbreak, Healthy, Empty, Overrun}

DormitoryPcts == {RInt(0), Rat(3, 4)}

FullHighSpread ==
  [facilityOccupancyPct |-> RInt(1), rateOfSpreadFactor |-> "high",
   populationTurnover |-> RInt(0)]
HalfFullLowSpread ==
  [facilityOccupancyPct |-> Rat(1, 2), rateOfSpreadFactor |-> "low",
   populationTurnover |-> RInt(1)]

Facilities == {FullHighSpread, HalfFullLowSpread}

(* none; one release; one larger than the facility; several on one day     *)
(* among records without a date, without a count, with a zero count, with  *)
(* a date before today, on day 0 and at the horizon                        *)
ReleasePlans ==
  { NoPlan,
    Plan(<<Release(1, 4)>>),
    Plan(<<Release(2, 50)>>),
    Plan(<<Release(1, 3), Undated(5), Release(1, 2), Uncounted(2), Release(-1, 7),
           Release(MaxDays, 9), Release(0, 6), Release(3, 0)>>) }

Inputs(scenario, dormitoryPct, facility, plan, numDays) ==
  [ageGroupPopulations |-> scenario.ageGroupPopulations,
   ageGroupInitiallyInfected |-> scenario.ageGroupInitiallyInfected,
   numDays |-> numDays,
   facilityDormitoryPct |-> dormitoryPct,
   facilityOccupancyPct |-> facility.facilityOccupancyPct,
   rateOfSpreadFactor |-> facility.rateOfSpreadFactor,
   plannedReleases |-> plan,
   populationTurnover |-> facility.populationTurnover]

Configurations ==
  { Inputs(s, p, f, r, n) :
      s \in Scenarios, p \in DormitoryPcts, f \in Facilities,
      r \in ReleasePlans, n \in 1..MaxDays }

(* longer runs of the outbreak, with a release larger than the facility *)
LongConfigurations ==
  { Inputs(Outbreak, p, f, Plan(<<Release(1, 5000)>>), LongDays) :
      p \in DormitoryPcts, f \in Facilities }

----------------------------------------------------------------------------
(* The state: the locals of the run of getAllBracketCurves, and those of a *)
(* second run (twin) that is stepped along with it when two runs are       *)
(* compared                                                                *)

VARIABLES inputs, pc, day, ageGroup, singleDayState, rowScale, projectionGrid,
          dayScale, totalPopulationByDay, expectedPopulationChanges,
          totalInfectious, totalSusceptibleIncarcerated, totalPopulation,
          aggregateScale, adjustedSusceptible, twin

vars == <<inputs, pc, day, ageGroup, singleDayState, rowScale, projectionGrid,
          dayScale, totalPopulationByDay, expectedPopulationChanges,
          totalInfectious, totalSusceptibleIncarcerated, totalPopulation,
          aggregateScale, adjustedSusceptible, twin>>

Run ==
  [inputs |-> inputs, pc |-> pc, day |-> day, ageGroup |-> ageGroup,
   singleDayState |-> singleDayState, rowScale |-> rowScale,
   projectionGrid |-> projectionGrid, dayScale |-> dayScale,
   totalPopulationByDay |-> totalPopulationByDay,
   expectedPopulationChanges |-> expectedPopulationChanges,
   totalInfectious |-> totalInfectious,
   totalSusceptibleIncarcerated |-> totalSusceptibleIncarcerated,
   totalPopulation |-> totalPopulation, aggregateScale |-> aggregateScale,
   adjustedSusceptible |-> adjustedSusceptible]

Is(r) ==
  /\ inputs = r.inputs
  /\ pc = r.pc
  /\ day = r.day
  /\ ageGroup = r.ageGroup
  /\ singleDayState = r.singleDayState
  /\ rowScale = r.rowScale
  /\ projectionGrid = r.projectionGrid
  /\ dayScale = r.dayScale
  /\ totalPopulationByDay = r.totalPopulationByDay
  /\ expectedPopulationChanges = r.expectedPopulationChanges
  /\ totalInfectious = r.totalInfectious
  /\ totalSusceptibleIncarcerated = r.totalSusceptibleIncarcerated
  /\ totalPopulation = r.totalPopulation
  /\ aggregateScale = r.aggregateScale
  /\ adjustedSusceptible = r.adjustedSusceptible

Becomes(r) ==
  /\ inputs' = r.inputs
  /\ pc' = r.pc
  /\ day' = r.day
  /\ ageGroup' = r.ageGroup
  /\ singleDayState' = r.singleDayState
  /\ rowScale' = r.rowScale
  /\ projectionGrid' = r.projectionGrid
  /\ dayScale' = r.dayScale
  /\ totalPopulationByDay' = r.totalPopulationByDay
  /\ expectedPopulationChanges' = r.expectedPopulationChanges
  /\ totalInfectious' = r.totalInfectious
  /\ totalSusceptibleIncarcerated' = r.totalSusceptibleIncarcerated
  /\ totalPopulation' = r.totalPopulation
  /\ aggregateScale' = r.aggregateScale
  /\ adjustedSusceptible' = r.adjustedSusceptible

NoTwin == [pc |-> "absent"]

BothBecome(next) == Becomes(next[1]) /\ twin' = next[2]

Step(Do(_)) ==
  BothBecome([i \in {1, 2} |->
                IF i = 2 /\ twin.pc = "absent" THEN twin
                ELSE Do(IF i = 1 THEN Run ELSE twin)])

Init ==
  /\ \E in \in Configurations : Is(NewRun(in))
  /\ twin = NoTwin

Initialize == pc = "initializing" /\ Step(DoInitialize)

BeginDay == pc = "loop" /\ day < inputs.numDays /\ Step(DoBeginDay)

SimulateGroup == pc = "groups" /\ ageGroup < ageGroupLength /\ Step(DoSimulateGroup)

EndDay == pc = "groups" /\ ageGroup = ageGroupLength /\ Step(DoEndDay)

Return == pc = "loop" /\ day >= inputs.numDays /\ Step(DoReturn)

Next == Initialize \/ BeginDay \/ SimulateGroup \/ EndDay \/ Return

Spec == Init /\ [][Next]_vars

(* two runs whose inputs differ in facilityDormitoryPct alone *)
InitPair ==
  \E in \in Configurations, p \in DormitoryPcts :
    /\ p # in.facilityDormitoryPct
    /\ Is(NewRun(in))
    /\ twin = NewRun([in EXCEPT !.facilityDormitoryPct = p])

SpecPair == InitPair /\ [][Next]_vars

(* the longer runs *)
InitLong ==
  /\ \E in \in LongConfigurations : Is(NewRun(in))
  /\ twin = NoTwin

SpecLong == InitLong /\ [][Next]_vars

----------------------------------------------------------------------------
(* What the properties read from a run r                                   *)

(* the days whose slice of the grid and whose total have been written *)
Written(r) == IF r.pc = "initializing" THEN {} ELSE 0..(r.day - 1)

(* the row of the grid for one day and group, over r.dayScale[d] *)
GridRow(r, d, g) == [c \in seirIndexList |-> r.projectionGrid[c][d][g]]

RowSum(r, d, g) == BSumRange(GridRow(r, d, g), 0, seirLength - 1)

GridSum(r, d) ==
  BSumRange([g \in AgeGroups |-> RowSum(r, d, g)], 0, ageGroupLength - 1)

(* the entries of the planned releases that the resolution counts *)
IsCounted(release) == release.hasDate /\ release.hasCount /\ release.count # 0

----------------------------------------------------------------------------
(* C1: every cell of the returned projection grid is >= 0, for every day   *)
(* 0..numDays-1, every group and every compartment.  The code violates it: *)
(* on day 0 susceptible = population - cases - cases/2 is negative when    *)
(* the cases exceed two thirds of the population.                          *)
NonNegativeGrid ==
  pc = "complete" =>
    \A d \in Days(inputs), g \in AgeGroups, c \in seirIndexList :
      projectionGrid[c][d][g].sgn >= 0

(* C2: on every day d >= 1 whose resolved adjustment is zero, every        *)
(* group's ten compartments sum to what they summed to on day d-1.  The    *)
(* code violates it when the clamp of susceptible applies: susceptible is  *)
(* raised to 0 while exposed still receives the whole cSusceptible.        *)
MassConserved ==
  pc = "complete" =>
    \A d \in Days(inputs) \ {0}, g \in AgeGroups :
      expectedPopulationChanges.entries[d] = 0 =>
        QEq(RowSum(Run, d, g), dayScale[d], RowSum(Run, d - 1, g), dayScale[d - 1])

(* C4: totalPopulationByDay[d] is the sum of the grid over all groups and  *)
(* compartments at day d, for every day.  The code violates it: the total  *)
(* drops by the whole release, the grid by what the susceptible pool and   *)
(* the clamp let through.                                                  *)
TotalIsGridSum ==
  pc = "complete" =>
    \A d \in Days(inputs) :
      QEq(GridSum(Run, d), dayScale[d],
          BInt(totalPopulationByDay[d].n), BInt(totalPopulationByDay[d].d))

(* the total infectious of day d, over r.dayScale[d] *)
TotalInfectiousAt(r, d) ==
  BSumRange([g \in AgeGroups |-> r.projectionGrid[infectious][d][g]],
            0, ageGroupLength - 1)

SameStaffRow(d) ==
  \A c \in seirIndexList :
    QEq(projectionGrid[c][d][staff], dayScale[d],
        twin.projectionGrid[c][d][staff], twin.dayScale[d])

SameTotalInfectious(d) ==
  QEq(TotalInfectiousAt(Run, d), dayScale[d],
      TotalInfectiousAt(twin, d), twin.dayScale[d])

BothComplete == pc = "complete" /\ twin.pc = "complete"

(* C3 as claimed: two runs that differ in facilityDormitoryPct alone have  *)
(* the same staff values in every compartment on every day.  The code      *)
(* does not do that: the staff's exposure is proportional to the total     *)
(* infectious, which the housing split of the other groups changes.        *)
StaffIsolation ==
  BothComplete => \A d \in Days(inputs) : SameStaffRow(d)

(* C3 as amended: two runs that differ in facilityDormitoryPct alone have  *)
(* the same staff values on day d whenever their total infectious agree on *)
(* every day before d, and so always on days 0, 1 and 2.                   *)
StaffIsolationUpToInfectious ==
  BothComplete =>
    /\ \A d \in Days(inputs) :
         (\A e \in 0..(d - 1) : SameTotalInfectious(e)) => SameStaffRow(d)
    /\ \A d \in Days(inputs) \cap 0..2 : SameStaffRow(d)

(* two complete runs of four days or more in which the other groups have   *)
(* infected and susceptible members, the staff is exposed on day 2, and    *)
(* the total infectious of day 2 differ                                    *)
StaffIsolationWitness ==
  /\ BothComplete
  /\ inputs.numDays >= 4
  /\ inputs.facilityDormitoryPct # twin.inputs.facilityDormitoryPct
  /\ \E g \in AgeGroups \ {staff} :
       /\ projectionGrid[infectious][0][g].sgn > 0
       /\ projectionGrid[susceptible][0][g].sgn > 0
  /\ projectionGrid[exposed][2][staff].sgn > 0
  /\ ~SameTotalInfectious(2)
  /\ SameStaffRow(2)

----------------------------------------------------------------------------
PlannedReleases(in) ==
  IF in.plannedReleases.defined THEN in.plannedReleases.list ELSE <<>>

(* C5: for every day d >= 1 that has been simulated,                       *)
(* totalPopulationByDay[d] = totalPopulationByDay[d-1] +                   *)
(* expectedPopulationChanges[d]; a single release of c people at offset d  *)
(* puts -c at index d and makes the total of day d that of day d-1 minus   *)
(* c; and while day d is simulated every group is given                    *)
(* totalPopulationByDay[d-1] as totalPopulation, the total of day d not    *)
(* yet being written.                                                      *)
ReleaseApplied ==
  /\ \A d \in Written(Run) \ {0} :
       totalPopulationByDay[d] =
         RAdd(totalPopulationByDay[d - 1], RInt(expectedPopulationChanges.entries[d]))
  /\ \A d \in Written(Run) \ {0} :
       (/\ Len(PlannedReleases(inputs)) = 1
        /\ IsCounted(PlannedReleases(inputs)[1])
        /\ PlannedReleases(inputs)[1].dateIndex = d)
       => /\ expectedPopulationChanges.entries[d] = -PlannedReleases(inputs)[1].count
          /\ totalPopulationByDay[d] =
               RSub(totalPopulationByDay[d - 1], RInt(PlannedReleases(inputs)[1].count))
  /\ pc = "groups" =>
       /\ \A g \in AgeGroups :
            SingleDayInputs(Run, g).totalPopulation = totalPopulationByDay[day - 1]
       /\ IsDefined(totalPopulationByDay[day - 1])
       /\ ~IsDefined(totalPopulationByDay[day])

(* a complete run with a single release that fell on a simulated day *)
ReleaseAppliedWitness ==
  /\ pc = "complete"
  /\ Len(PlannedReleases(inputs)) = 1
  /\ \E d \in Days(inputs) \ {0} :
       /\ PlannedReleases(inputs)[1].dateIndex = d
       /\ expectedPopulationChanges.entries[d] < 0
       /\ totalPopulationByDay[d] # totalPopulationByDay[d - 1]

RECURSIVE CountedAt(_, _, _)
CountedAt(releases, d, i) ==
  IF i > Len(releases) THEN 0
  ELSE (IF IsCounted(releases[i]) /\ releases[i].dateIndex = d
          THEN releases[i].count ELSE 0)
       + CountedAt(releases, d, i + 1)

(* C6: the resolved sequence has exactly numDays entries, and entry d is   *)
(* minus the sum of the counts of the planned releases that have a date, a *)
(* defined non-zero count and the offset d; the releases without a date,   *)
(* without a count, with a zero count or with an offset before day 0 or at *)
(* or beyond numDays change no entry, and the run goes on.                 *)
ReleasesResolved ==
  pc # "initializing" =>
    /\ DOMAIN expectedPopulationChanges.entries = 0..(inputs.numDays - 1)
    /\ Cardinality(DOMAIN expectedPopulationChanges.entries) = inputs.numDays
    /\ \A d \in Days(inputs) :
         expectedPopulationChanges.entries[d] = -CountedAt(PlannedReleases(inputs), d, 1)

(* a resolved plan with two releases on one day and with releases without  *)
(* a date, without a count, with a zero count, before day 0 and beyond the *)
(* horizon                                                                 *)
ReleasesResolvedWitness ==
  /\ pc = "complete"
  /\ \E i, j \in DOMAIN PlannedReleases(inputs) :
       /\ i # j
       /\ IsCounted(PlannedReleases(inputs)[i]) /\ IsCounted(PlannedReleases(inputs)[j])
       /\ PlannedReleases(inputs)[i].dateIndex = PlannedReleases(inputs)[j].dateIndex
       /\ PlannedReleases(inputs)[i].dateIndex \in Days(inputs)
  /\ \E i \in DOMAIN PlannedReleases(inputs) : ~PlannedReleases(inputs)[i].hasDate
  /\ \E i \in DOMAIN PlannedReleases(inputs) : ~PlannedReleases(inputs)[i].hasCount
  /\ \E i \in DOMAIN PlannedReleases(inputs) :
       PlannedReleases(inputs)[i].hasCount /\ PlannedReleases(inputs)[i].count = 0
  /\ \E i \in DOMAIN PlannedReleases(inputs) :
       IsCounted(PlannedReleases(inputs)[i]) /\ PlannedReleases(inputs)[i].dateIndex < 0
  /\ \E i \in DOMAIN PlannedReleases(inputs) :
       IsCounted(PlannedReleases(inputs)[i])
       /\ PlannedReleases(inputs)[i].dateIndex >= inputs.numDays
  /\ expectedPopulationChanges.properties # {}

(* C7: for every group and every day d >= 1 the fatalities of day d are at *)
(* least those of day d-1.  The code violates it once hospitalized or icu  *)
(* is negative, which the negative susceptible of C1 leads to.             *)
FatalitiesMonotonic ==
  pc = "complete" =>
    \A d \in Days(inputs) \ {0}, g \in AgeGroups :
      QLeq(projectionGrid[fatalities][d - 1][g], dayScale[d - 1],
           projectionGrid[fatalities][d][g], dayScale[d])

----------------------------------------------------------------------------
NoInfection(in) ==
  \A i \in 1..ageGroupLength : in.ageGroupInitiallyInfected[i] = 0

(* the population of a group after the turnover adjustment: the staff's is *)
(* the input, the others' the input plus input * turnover * 0.0879         *)
AdjustedInitialPopulation(in, g) ==
  IF g = staff THEN RInt(in.ageGroupPopulations[g + 1])
  ELSE RAdd(RInt(in.ageGroupPopulations[g + 1]),
            RMul(RInt(in.ageGroupPopulations[g + 1]),
                 RMul(in.populationTurnover, Rat(879, 10000))))

IsValue(cell, scale, x) == QEq(cell, scale, BInt(x.n), BInt(x.d))

(* C8: when no group has initially infected members and there are no       *)
(* planned releases, then on every day and for every group every           *)
(* compartment other than susceptible is 0 and susceptible is the group's  *)
(* adjusted initial population, also when the total population is 0.       *)
SteadyState ==
  (NoInfection(inputs) /\ Len(PlannedReleases(inputs)) = 0) =>
    \A d \in Written(Run), g \in AgeGroups :
      /\ \A c \in seirIndexList \ {susceptible} : projectionGrid[c][d][g].sgn = 0
      /\ IsValue(projectionGrid[susceptible][d][g], dayScale[d],
                 AdjustedInitialPopulation(inputs, g))

(* a complete run of three days or more without infection or releases, of *)
(* a populated facility with turnover                                      *)
SteadyStateWitness ==
  /\ pc = "complete"
  /\ inputs.numDays >= 3
  /\ NoInfection(inputs) /\ Len(PlannedReleases(inputs)) = 0
  /\ inputs.populationTurnover.n # 0
  /\ totalPopulationByDay[0].n > 0
  /\ \E g \in AgeGroups \ {staff} :
       /\ projectionGrid[susceptible][2][g].sgn > 0
       /\ ~IsValue(projectionGrid[susceptible][2][g], dayScale[2],
                   RInt(inputs.ageGroupPopulations[g + 1]))

----------------------------------------------------------------------------
(* What the properties read from the day before the one being simulated    *)

PriorSusceptible(r, g) == r.projectionGrid[susceptible][r.day - 1][g]

PriorPool(r) ==
  BSumRange([g \in AgeGroups |-> IF g # staff THEN PriorSusceptible(r, g) ELSE BZero],
            0, ageGroupLength - 1)

(* the argument of simulateOneDay for group g, the row and the aggregates  *)
(* taken from the grid's slice of the day before                           *)
PriorDayInputs(r, g) ==
  [priorSimulation |-> GridRow(r, r.day - 1, g),
   scale |-> r.dayScale[r.day - 1],
   totalPopulation |-> r.totalPopulationByDay[r.day - 1],
   totalInfectious |-> TotalInfectiousAt(r, r.day - 1),
   rateOfSpreadCells |-> rateOfSpreadCells(r.inputs),
   rateOfSpreadDorms |-> rateOfSpreadDorms(r.inputs),
   pFatalityRate |-> ageGroupFatalityRates[g],
   facilityDormitoryPct |-> r.inputs.facilityDormitoryPct,
   simulateStaff |-> (g = staff),
   populationAdjustment |-> r.expectedPopulationChanges.entries[r.day],
   totalSusceptibleIncarcerated |-> PriorPool(r)]

(* the change of group g's susceptible before the exposure is computed,    *)
(* as numerator over ChangeScale                                           *)
Change(r, g) ==
  BSub(BMul(r.adjustedSusceptible[g].n, r.dayScale[r.day - 1]),
       BMul(PriorSusceptible(r, g), r.adjustedSusceptible[g].d))

ChangeScale(r, g) == BMul(r.adjustedSusceptible[g].d, r.dayScale[r.day - 1])

SameRow(row1, scale1, row2, scale2) ==
  \A c \in seirIndexList : QEq(row1[c], scale1, row2[c], scale2)

StaffRowAsWithout(r, projection) ==
  SameRow(r.singleDayState[staff], r.rowScale[staff], projection.newDay, projection.scale)

(* C9: on a day with adjustment A the susceptible of every non-staff       *)
(* group that has been simulated is changed, before its exposure is        *)
(* computed, by A * (own susceptible / non-staff susceptible) of the day   *)
(* before when that pool is not zero and by 0 when it is; the staff's is   *)
(* not changed; once all groups are simulated the changes sum to A when    *)
(* the pool is not zero, and the staff's row is what simulateOneDay gives  *)
(* with adjustment 0.                                                      *)
AdjustmentDistributed ==
  pc = "groups" =>
    /\ \A g \in 0..(ageGroup - 1) :
         IF g # staff /\ PriorPool(Run).sgn # 0
           THEN QEq(Change(Run, g), ChangeScale(Run, g),
                    BMul(BInt(expectedPopulationChanges.entries[day]),
                         PriorSusceptible(Run, g)),
                    PriorPool(Run))
           ELSE Change(Run, g).sgn = 0
    /\ ageGroup = ageGroupLength =>
         /\ \A g \in AgeGroups : ChangeScale(Run, g) = ChangeScale(Run, 0)
         /\ QEq(BSumRange([g \in AgeGroups |-> Change(Run, g)], 0, ageGroupLength - 1),
                ChangeScale(Run, 0),
                IF PriorPool(Run).sgn # 0
                  THEN BInt(expectedPopulationChanges.entries[day]) ELSE BZero,
                BOne)
         /\ StaffRowAsWithout(Run,
              simulateOneDay([PriorDayInputs(Run, staff) EXCEPT !.populationAdjustment = 0]))

(* all groups simulated on a day with an adjustment, two groups with       *)
(* susceptible members sharing it, the staff with susceptible members too  *)
AdjustmentDistributedWitness ==
  /\ pc = "groups" /\ ageGroup = ageGroupLength
  /\ expectedPopulationChanges.entries[day] # 0
  /\ PriorPool(Run).sgn > 0
  /\ PriorSusceptible(Run, staff).sgn > 0
  /\ \E g, h \in AgeGroups \ {staff} :
       /\ g # h
       /\ Change(Run, g).sgn < 0 /\ Change(Run, h).sgn < 0
       /\ Change(Run, g) # Change(Run, h)

RowIs(r, g, projection) ==
  r.singleDayState[g] = projection.newDay /\ r.rowScale[g] = projection.scale

----------------------------------------------------------------------------
(* the slice of the grid for day d, and a step that writes to the grid:    *)
(* line 408 and line 441 are the calls of updateProjectionDay              *)
DaySlice(grid, d) == [c \in seirIndexList |-> grid[c][d]]

IsWritingStep ==
  \/ pc = "initializing"
  \/ pc = "groups" /\ ageGroup = ageGroupLength

(* the steps from a state to the return: one to initialize, one for each   *)
(* test of the loop that holds, one for each group and one to end each     *)
(* day, one for the test that fails                                        *)
StepsOfDay == ageGroupLength + 2

StepsLeft ==
  CASE pc = "initializing" -> 2 + (inputs.numDays - 1) * StepsOfDay
    [] pc = "loop" -> 1 + (inputs.numDays - day) * StepsOfDay
    [] pc = "groups" ->
         2 + (inputs.numDays - day - 1) * StepsOfDay + (ageGroupLength - ageGroup)
    [] pc = "complete" -> 0

(* the condition of one of the steps holds *)
CanStep ==
  \/ pc = "initializing"
  \/ pc = "loop" /\ day < inputs.numDays
  \/ pc = "loop" /\ day >= inputs.numDays
  \/ pc = "groups" /\ ageGroup < ageGroupLength
  \/ pc = "groups" /\ ageGroup = ageGroupLength

PassStep ==
  /\ StepsLeft' = StepsLeft - 1
  /\ day' # day => /\ day' = day + 1
                   /\ IsWritingStep
                   /\ day < inputs.numDays
                   /\ pc' = "loop"
  /\ IsWritingStep => day' = day + 1
  /\ \A d \in Days(inputs) :
       (d # day \/ ~IsWritingStep) =>
         /\ DaySlice(projectionGrid', d) = DaySlice(projectionGrid, d)
         /\ dayScale'[d] = dayScale[d]
         /\ totalPopulationByDay'[d] = totalPopulationByDay[d]
  /\ pc = "initializing" =>
       \A g \in AgeGroups :
         /\ [c \in seirIndexList |-> projectionGrid'[c][0][g]] = InitialState(inputs)[g]
         /\ singleDayState'[g] = InitialState(inputs)[g]

PassState ==
  /\ StepsLeft >= 0
  /\ pc # "complete" => CanStep
  /\ \A d \in Days(inputs) : IsDefined(totalPopulationByDay[d]) <=> d \in Written(Run)
  /\ \A d \in Days(inputs) \ Written(Run) :
       \A c \in seirIndexList, g \in AgeGroups : projectionGrid[c][d][g] = BZero
  /\ pc = "initializing" => day = 0
  /\ pc \in {"loop", "groups"} => day >= 1 /\ day <= inputs.numDays
  /\ pc = "groups" => day < inputs.numDays /\ ageGroup <= ageGroupLength
  /\ pc = "complete" =>
       /\ day = inputs.numDays
       /\ Written(Run) = Days(inputs)

(* C11: the driver is one linear pass that ends.  Day 0 of the grid is     *)
(* written from the initial state; the day counter goes up by one, and     *)
(* only in the step that writes the counter's slice of the grid and its    *)
(* total, so each day 1..numDays-1 is simulated and written once and in    *)
(* increasing order; no step changes the slice or the total of another     *)
(* day, so a day once written stays; every step brings the return one      *)
(* step nearer and every state before the return has a step to take, so    *)
(* the run ends, after numDays-1 day steps, with the counter at numDays    *)
(* and every entry of totalPopulationByDay defined.                        *)
LinearPass == [][PassStep]_vars /\ []PassState

(* a complete run of the longest horizon, every total defined, whose grid  *)
(* differs from day to day                                                 *)
LinearPassWitness ==
  /\ pc = "complete"
  /\ inputs.numDays >= 4
  /\ day = inputs.numDays
  /\ \A d \in Days(inputs) : IsDefined(totalPopulationByDay[d])
  /\ \A d \in Days(inputs) \ {0} :
       ~SameRow(GridRow(Run, d, age20), dayScale[d],
               GridRow(Run, d - 1, age20), dayScale[d - 1])

====
